---- MODULE Spec2Model ----
(***************************************************************************)
(* Model of the language-mode registry (src/language-system.js) and the    *)
(* content resolver / cache (src/content-library.js).                      *)
(*                                                                         *)
(* JavaScript values are tagged records; a key string is the sequence of   *)
(* its '.'-separated segments (what key.split('.') yields).  Every await   *)
(* of the source is a point where another continuation may run.            *)
(***************************************************************************)
EXTENDS Integers, Sequences, FiniteSets, TLC

(***************************************************************************)
(* JavaScript values                                                       *)
(***************************************************************************)
JNull == [t |-> "null"]
JStr(s) == [t |-> "str", s |-> s]
JNum(n) == [t |-> "num", n |-> n]
JBool(b) == [t |-> "bool", b |-> b]
JObj(m) == [t |-> "obj", m |-> m]
\* a function object, such as the inherited Object.prototype.constructor
JFun == [t |-> "fun"]
\* Object.prototype itself, reached through the inherited __proto__ accessor
ObjectPrototype == [t |-> "proto"]
EmptyObj == JObj(<< >>)

\* ToBoolean: null, "", 0 and false are falsy; every object is truthy
Truthy(v) ==
    CASE v.t = "null" -> FALSE
      [] v.t = "str" -> v.s # ""
      [] v.t = "num" -> v.n # 0
      [] v.t = "bool" -> v.b
      [] OTHER -> TRUE

\* typeof v === 'object' (true of null as well)
TypeofObject(v) == v.t \in {"null", "obj", "proto"}

\* property names every plain object inherits from Object.prototype
ProtoProps == {"__proto__", "constructor"}

\* k in v, for an object v: own properties, then the prototype chain
HasProperty(k, v) ==
    \/ v.t = "obj" /\ (k \in DOMAIN v.m \/ k \in ProtoProps)
    \/ v.t = "proto" /\ k \in ProtoProps

\* v[k], for an object v with k in v
GetProperty(v, k) ==
    IF v.t = "obj" /\ k \in DOMAIN v.m THEN v.m[k]
    ELSE IF k = "__proto__" THEN (IF v.t = "obj" THEN ObjectPrototype ELSE JNull)
    ELSE JFun

(***************************************************************************)
(* ContentLibrary.findTranslation                                          *)
(***************************************************************************)
\* what findTranslation yields: a value, or a TypeError thrown by `in`
Returned(v) == [threw |-> FALSE, v |-> v]
Thrown == [threw |-> TRUE, v |-> JNull]

\* the for loop over key.split('.'): the node reached, or "none" on a miss
RECURSIVE Traverse(_, _, _)
Traverse(keys, i, current) ==
    IF i > Len(keys) THEN [found |-> TRUE, node |-> current]
    ELSE IF Truthy(current) /\ TypeofObject(current) /\ HasProperty(keys[i], current)
         THEN Traverse(keys, i + 1, GetProperty(current, keys[i]))
         ELSE [found |-> FALSE, node |-> JNull]

\* context is JNull when the caller gives none
findTranslation(key, context, data) ==
    IF ~Truthy(data) THEN Returned(JNull)
    ELSE LET r == Traverse(key, 1, data)
             current == r.node
         IN IF ~r.found THEN Returned(JNull)
            ELSE IF Truthy(context) /\ TypeofObject(current)
                 THEN \* `context in current` with current === null is a TypeError
                      IF current.t = "null" THEN Thrown
                      ELSE IF HasProperty(context.s, current)
                           THEN Returned(GetProperty(current, context.s))
                           ELSE Returned(current)
                 ELSE IF current.t = "str" \/ TypeofObject(current)
                      THEN Returned(current)
                      ELSE Returned(JNull)

(***************************************************************************)
(* Bounds of the model                                                     *)
(***************************************************************************)
\* fetches of one translation table the model follows
MaxFetches == 2
\* top-level library calls started in one behaviour
MaxStarted == 2
\* advances of the clock in one behaviour
MaxTicks == 2
\* steps of one behaviour that use the cache or move its clock: getContent
\* calls, direct calls of addToCache, getFromCache and clearCache, and ticks
MaxCacheOps == 4
\* the source's CACHE_SIZE is 500 (src/content-library.js:22); the model runs
\* the same code with a small capacity so that overflow is reached
CACHE_SIZE == 2

\* 24 * 60 * 60 * 1000 ms
CACHE_TTL == 24 * 60 * 60 * 1000

(***************************************************************************)
(* Strings of the model                                                    *)
(***************************************************************************)
Modes == {"exam", "study", "beginner"}
Tables == {"ui", "content", "explanations"}
Slots == {1, 2}

\* the key string of a segment sequence: the inverse of key.split('.')
RECURSIVE KeyStr(_)
KeyStr(key) ==
    IF Len(key) = 0 THEN ""
    ELSE IF Len(key) = 1 THEN key[1]
    ELSE key[1] \o "." \o KeyStr(Tail(key))

\* String.prototype.toLowerCase on the strings of the model
toLowerCase(s) ==
    CASE s = "API" -> "api"
      [] s = "Api" -> "api"
      [] OTHER -> s

\* String.prototype.includes / startsWith on the strings of the model: no
\* string of the model properly contains another one
includes(hay, needle) == hay = needle

KeyHome == <<"ui", "nav", "home">>
KeyGreet == <<"greet">>
KeyTerms == <<"technical-terms">>
KeyProto == <<"__proto__">>
Keys == {KeyHome, KeyGreet, KeyTerms, KeyProto}
Contexts == {JNull, JStr("formal")}
\* the (key, context) pairs the callers that load translations ask for, and
\* the mode arguments of their getContent calls (exam mode loads no table)
Requests == {<<KeyHome, JNull>>, <<KeyProto, JNull>>}
ModeArgs == {JStr("study"), JStr("beginner")}
Terms == {"api", "zip"}

(***************************************************************************)
(* Resources                                                               *)
(***************************************************************************)
UiTable == JObj("ui" :> JObj("nav" :> JObj("home" :> JStr("home-ar"))))
ContentTable ==
    JObj("greet" :> JObj("formal" :> JStr("greet-formal-ar")
                         @@ "casual" :> JStr("greet-casual-ar"))
         @@ "gap" :> JNull)
ExplanationsTable == JObj("API" :> JStr("api-ar"))
GoodTable(type) ==
    CASE type = "ui" -> UiTable
      [] type = "content" -> ContentTable
      [] OTHER -> ExplanationsTable

\* what a fetch can come to: rejected, a non-2xx status, a body that is not
\* JSON, or a parsed JSON document
Reject == [kind |-> "reject", v |-> JNull]
HttpError == [kind |-> "status", v |-> JNull]
ParseError == [kind |-> "badjson", v |-> JNull]
Body(v) == [kind |-> "json", v |-> v]
Failures == {Reject, HttpError, ParseError}
TableResponses(type) == Failures \cup {Body(GoodTable(type)), Body(JNull)}

TermRecord ==
    [t |-> "rec", term |-> "technical-terms", definition |-> "def",
     example |-> "ex", synonyms |-> <<"glossary">>]
TermsFile == [t |-> "obj", m |-> ("terms" :> [t |-> "arr", a |-> <<TermRecord>>])]
DataResponses == Failures \cup {Body(TermsFile), Body(EmptyObj), Body(JNull)}

\* loadJSONFile: the parsed document, or a rejection
loadJSONFile(resp) ==
    IF resp.kind = "json" THEN [ok |-> TRUE, data |-> resp.v]
    ELSE [ok |-> FALSE, data |-> JNull]

\* getTranslationFileName
getTranslationFileName(type) ==
    CASE type = "ui" -> "ui-translations.json"
      [] type = "content" -> "content-translations.json"
      [] type = "explanations" -> "explanations.json"
      [] OTHER -> type \o "-translations.json"

(***************************************************************************)
(* State                                                                   *)
(***************************************************************************)
VARIABLES
    \* ContentLibrary
    loadedTranslations,   \* table name -> parsed table, or null
    loadingPromises,      \* table name -> the promise in flight (0: none)
    promises,             \* table name -> the load promises created so far;
                          \* each one was created with one fetch of the file
    dataFetches,          \* number of data-file fetches issued
    cache,                \* Map in insertion order: <<[k, v], ...>>
    cacheTimestamps,      \* Map: cache key -> Date.now() at insertion
    calls,                \* the asynchronous calls in progress, by slot
    now,                  \* Date.now()
    ticks,                \* clock advances so far
    started,              \* library calls started so far
    cacheOps,             \* direct calls of the cache primitives so far
    fill,                 \* observer: the distinct keys inserted, in order,
                          \* since the cache was last empty
    last                  \* observer: what the last cache operation did

libVars == <<loadedTranslations, loadingPromises, promises, dataFetches, cache,
             cacheTimestamps, calls, now, ticks, started, cacheOps, fill>>

\* The observer of insertions: clean while, since the cache was last empty,
\* only insertions of distinct keys and cache hits have happened
EmptyFill == [keys |-> << >>, clean |-> TRUE, hit |-> FALSE]
DirtyFill == [keys |-> << >>, clean |-> FALSE, hit |-> FALSE]
NoteAdd(f, ck) ==
    IF ~f.clean THEN f
    ELSE IF (\E i \in DOMAIN f.keys : f.keys[i] = ck) \/ Len(f.keys) > CACHE_SIZE
    THEN DirtyFill
    ELSE [f EXCEPT !.keys = Append(@, ck)]
\* hit: the first-inserted entry was read, and found, before the overflow
NoteHit(f, ck) ==
    IF f.clean /\ Len(f.keys) > 0 /\ Len(f.keys) <= CACHE_SIZE /\ f.keys[1] = ck
    THEN [f EXCEPT !.hit = TRUE] ELSE f
\* a read: a hit, an eviction of an expired entry, or a plain miss
NoteRead(f, g, c, ck) ==
    IF g.v # JNull THEN NoteHit(f, ck) ELSE IF g.c # c THEN DirtyFill ELSE f

(***************************************************************************)
(* Cache primitives.  c is [cache, ts]: the two Maps of the library.       *)
(***************************************************************************)
CacheKeysOf(entries) == {entries[i].k : i \in DOMAIN entries}
MapHas(entries, k) == k \in CacheKeysOf(entries)
MapGet(entries, k) == (CHOOSE i \in DOMAIN entries : entries[i].k = k)
MapValue(entries, k) == entries[MapGet(entries, k)].v
\* Map.prototype.set: a present key keeps its place, a new key goes last
MapSet(entries, k, v) ==
    IF MapHas(entries, k)
    THEN [i \in DOMAIN entries |-> IF entries[i].k = k THEN [k |-> k, v |-> v]
                                   ELSE entries[i]]
    ELSE Append(entries, [k |-> k, v |-> v])
MapDelete(entries, k) == SelectSeq(entries, LAMBDA e : e.k # k)
Without(f, k) == [x \in DOMAIN f \ {k} |-> f[x]]

getCacheKey(key, context, m) ==
    m \o ":" \o KeyStr(key) \o ":" \o (IF Truthy(context) THEN context.s ELSE "default")

\* a getFromCache that never expires an entry
getFromCache_noExpiry(c, cacheKey, at) ==
    IF ~MapHas(c.cache, cacheKey) \/ ~Truthy(MapValue(c.cache, cacheKey))
    THEN [v |-> JNull, c |-> c]
    ELSE [v |-> MapValue(c.cache, cacheKey), c |-> c]

\* a getFromCache that makes the entry it returns the most recent one, as a
\* least-recently-used cache would
getFromCache_lru(c, cacheKey, at) ==
    IF ~MapHas(c.cache, cacheKey) \/ ~Truthy(MapValue(c.cache, cacheKey))
    THEN [v |-> JNull, c |-> c]
    ELSE IF /\ cacheKey \in DOMAIN c.ts
            /\ c.ts[cacheKey] # 0
            /\ at - c.ts[cacheKey] > CACHE_TTL
         THEN [v |-> JNull,
               c |-> [cache |-> MapDelete(c.cache, cacheKey),
                      ts |-> Without(c.ts, cacheKey)]]
         ELSE [v |-> MapValue(c.cache, cacheKey),
               c |-> [c EXCEPT !.cache =
                        Append(MapDelete(c.cache, cacheKey),
                               [k |-> cacheKey, v |-> MapValue(c.cache, cacheKey)])]]

\* getFromCache at time `at`: the value returned (JNull: absent) and the Maps
getFromCache(c, cacheKey, at) ==
    IF ~MapHas(c.cache, cacheKey) \/ ~Truthy(MapValue(c.cache, cacheKey))
    THEN [v |-> JNull, c |-> c]
    ELSE IF /\ cacheKey \in DOMAIN c.ts
            /\ c.ts[cacheKey] # 0
            /\ at - c.ts[cacheKey] > CACHE_TTL
         THEN [v |-> JNull,
               c |-> [cache |-> MapDelete(c.cache, cacheKey),
                      ts |-> Without(c.ts, cacheKey)]]
         ELSE [v |-> MapValue(c.cache, cacheKey), c |-> c]

\* an addToCache that evicts nothing
addToCache_noEviction(c, cacheKey, content, at) ==
    [cache |-> MapSet(c.cache, cacheKey, content), ts |-> (cacheKey :> at) @@ c.ts]

\* addToCache at time `at`
addToCache(c, cacheKey, content, at) ==
    LET full == Len(c.cache) >= CACHE_SIZE
        firstKey == c.cache[1].k
        c1 == IF full
              THEN [cache |-> MapDelete(c.cache, firstKey),
                    ts |-> Without(c.ts, firstKey)]
              ELSE c
    IN [cache |-> MapSet(c1.cache, cacheKey, content),
        ts |-> (cacheKey :> at) @@ c1.ts]

clearCache(c) == [cache |-> << >>, ts |-> << >>]

(***************************************************************************)
(* loadTranslations.  s is the record of the library's fields.             *)
(***************************************************************************)
Pending == [st |-> "pending", v |-> JNull]
Resolved(v) == [st |-> "resolved", v |-> v]

Lib == [lt |-> loadedTranslations, lp |-> loadingPromises, pr |-> promises,
        df |-> dataFetches, cache |-> cache, ts |-> cacheTimestamps, fill |-> fill]

\* number of fetches of a table's file issued so far
FetchCount(type) == Len(promises[type])

\* a loadTranslations without the check of loadingPromises
loadTranslations_noCoalescing(s, type) ==
    IF Truthy(s.lt[type]) THEN [s |-> s, p |-> 0, v |-> s.lt[type]]
    ELSE LET n == Len(s.pr[type]) + 1
         IN [s |-> [s EXCEPT !.pr[type] = Append(@, Pending), !.lp[type] = n],
             p |-> n, v |-> JNull]

\* the synchronous part of loadTranslations(type): the new fields, and what
\* the caller is left awaiting (p: a load promise of the table; 0: the value v)
loadTranslations(s, type) ==
    IF Truthy(s.lt[type]) THEN [s |-> s, p |-> 0, v |-> s.lt[type]]
    ELSE IF s.lp[type] # 0 THEN [s |-> s, p |-> s.lp[type], v |-> JNull]
    ELSE LET n == Len(s.pr[type]) + 1
         IN [s |-> [s EXCEPT !.pr[type] = Append(@, Pending), !.lp[type] = n],
             p |-> n, v |-> JNull]

\* the model follows at most MaxFetches fetches of a table
CanLoad(s, type) ==
    Truthy(s.lt[type]) \/ s.lp[type] # 0 \/ Len(s.pr[type]) < MaxFetches

\* the .then / .catch handlers of the promise a load created
settleLoad(s, type, n, resp) ==
    LET r == loadJSONFile(resp)
    IN IF r.ok
       THEN [s EXCEPT !.lt[type] = r.data, !.lp[type] = 0,
                      !.pr[type][n] = Resolved(r.data)]
       ELSE [s EXCEPT !.lp[type] = 0, !.lt[type] = EmptyObj,
                      !.pr[type][n] = Resolved(EmptyObj)]

(***************************************************************************)
(* Content structures                                                      *)
(***************************************************************************)
\* getEnglishContent's fallback: the key verbatim as English text
Fallback(key) ==
    [t |-> "english", text |-> KeyStr(key), mode |-> "exam", isEnglish |-> TRUE]

StudyContent(english, arabic) ==
    [t |-> "study", main |-> english, help |-> arabic, mode |-> "study",
     showHelp |-> TRUE]

BeginnerContent(english, arabic) ==
    [t |-> "beginner", main |-> IF Truthy(arabic) THEN arabic ELSE english,
     english |-> english, mode |-> "beginner", isBilingual |-> TRUE]

\* the fileMap of getFromDataFiles, in the order Object.entries walks it
FileMap ==
    << <<"technical-terms", "technical-terms.json">>,
       <<"synonyms", "synonyms.json">>,
       <<"reading", "reading-texts.json">>,
       <<"grammar", "grammar-exercises.json">> >>

\* the data file of a key ("": none)
DataFileOf(key) ==
    LET hits == {i \in DOMAIN FileMap : includes(KeyStr(key), FileMap[i][1])}
    IN IF hits = {} THEN ""
       ELSE FileMap[CHOOSE i \in hits : \A j \in hits : i <= j][2]

\* Array.prototype.find over data[field] with the term test of the source
FindTerm(data, field, key) ==
    IF data.t = "obj" /\ field \in DOMAIN data.m /\ data.m[field].t = "arr"
    THEN LET a == data.m[field].a
             ok == {i \in DOMAIN a :
                      \/ a[i].term = KeyStr(key)
                      \/ includes(toLowerCase(a[i].term), toLowerCase(KeyStr(key)))}
         IN IF ok = {} THEN JNull ELSE a[CHOOSE i \in ok : \A j \in ok : i <= j]
    ELSE JNull

\* getFromDataFiles once the file's fetch has come to r (loadJSONFile's
\* outcome): the record found, or null; a TypeError on a null document is
\* caught like a failed load
dataContent(key, r) ==
    IF ~r.ok \/ r.data.t = "null" THEN JNull
    ELSE LET term == FindTerm(r.data, "terms", key)
             synonym == FindTerm(r.data, "synonyms", key)
         IN IF Truthy(term)
            THEN [t |-> "term", term |-> term.term, definition |-> term.definition,
                  example |-> term.example, synonyms |-> term.synonyms]
            ELSE IF Truthy(synonym)
            THEN [t |-> "synonym", term |-> synonym.term,
                  synonyms |-> synonym.synonyms,
                  definition |-> synonym.definition, example |-> synonym.example]
            ELSE JNull

\* getEnglishContent, given what getFromDataFiles came to
englishContent(key, data) == IF Truthy(data) THEN data ELSE Fallback(key)

\* the scan of getExplanation over Object.entries(explanations)
explanationOf(term, explanations) ==
    IF ~Truthy(explanations) THEN JNull
    ELSE IF explanations.t # "obj" THEN JNull
    ELSE LET hits == {k \in DOMAIN explanations.m :
                        toLowerCase(k) = toLowerCase(term)}
         IN IF hits = {} THEN JNull
            ELSE explanations.m[CHOOSE k \in hits : TRUE]

(***************************************************************************)
(* Asynchronous calls                                                      *)
(***************************************************************************)
Idle ==
    [op |-> "idle", pc |-> "idle", key |-> << >>, ctx |-> JNull, mode |-> "",
     tbl |-> "", p |-> 0, d |-> "none", english |-> JNull, res |-> JNull,
     batch |-> FALSE]

IsFree(i) == calls[i].op = "idle"
\* calls take the lowest free slot
FreeSlot(cs) == CHOOSE i \in Slots : cs[i].op = "idle" /\ \A j \in Slots : j < i => cs[j].op # "idle"
HasFree(cs) == \E i \in Slots : cs[i].op = "idle"

\* a call awaiting load promise p of a table may go on
PromiseReady(s, type, p) == IF p = 0 THEN TRUE ELSE s.pr[type][p].st = "resolved"

\* a finished call keeps what it was called with and, for loadTranslations, the
\* promise it was given
Done(call, v) ==
    [call EXCEPT !.pc = "done", !.res = v, !.d = "none", !.english = JNull,
                 !.p = IF call.op = "loadTranslations" THEN @ ELSE 0]
Failed(call) ==
    [call EXCEPT !.pc = "failed", !.res = JNull, !.p = 0, !.d = "none",
                 !.english = JNull]

\* what stands for getMode() where window.LanguageSystem is missing
NoRegistry == "none"

\* a mode resolution that ignores the mode argument
resolveMode_registryOnly(modeArg, registryMode) ==
    IF registryMode # NoRegistry THEN registryMode ELSE "exam"

\* getContent, line 69-73: the mode of the call
resolveMode(modeArg, registryMode) ==
    IF Truthy(modeArg) THEN modeArg.s
    ELSE IF registryMode # NoRegistry THEN registryMode
    ELSE "exam"

\* the end of getContent: compose by mode, store, return
finishContent(s, call, arabic, at) ==
    LET content == CASE call.mode = "study" -> StudyContent(call.english, arabic)
                     [] call.mode = "beginner" -> BeginnerContent(call.english, arabic)
                     [] OTHER -> call.english
        ck == getCacheKey(call.key, call.ctx, call.mode)
        c == addToCache([cache |-> s.cache, ts |-> s.ts], ck, content, at)
    IN [s |-> [s EXCEPT !.cache = c.cache, !.ts = c.ts, !.fill = NoteAdd(@, ck)],
        call |-> Done(call, content)]

\* getArabicTranslation has its result
finishArabic(s, call, arabic, at) ==
    IF call.op = "getContent" THEN finishContent(s, call, arabic, at)
    ELSE [s |-> s, call |-> Done(call, arabic)]

\* getArabicTranslation up to its first await
beginArabic(s, call) ==
    LET r == loadTranslations(s, "content")
    IN [s |-> r.s, call |-> [call EXCEPT !.pc = "awaitContent", !.tbl = "content", !.p = r.p]]

\* getArabicTranslation after `await this.loadTranslations('content')`
afterContent(s, call, at) ==
    LET f == findTranslation(call.key, call.ctx, s.lt["content"])
    IN IF f.threw THEN [s |-> s, call |-> Failed(call)]
       ELSE IF Truthy(f.v) THEN finishArabic(s, call, f.v, at)
       ELSE LET r == loadTranslations(s, "ui")
            IN [s |-> r.s, call |-> [call EXCEPT !.pc = "awaitUi", !.tbl = "ui", !.p = r.p]]

\* getArabicTranslation after `await this.loadTranslations('ui')`
afterUi(s, call, at) ==
    LET f == findTranslation(call.key, call.ctx, s.lt["ui"])
    IN IF f.threw THEN [s |-> s, call |-> Failed(call)]
       ELSE finishArabic(s, call, IF Truthy(f.v) THEN f.v ELSE JNull, at)

\* a getContent that does not look into the cache
beginContent_noCache(s, key, ctx, modeArg, registryMode, at, inBatch) ==
    LET call == [Idle EXCEPT !.op = "getContent", !.key = key, !.ctx = ctx,
                             !.mode = resolveMode(modeArg, registryMode),
                             !.batch = inBatch]
    IN IF DataFileOf(key) = ""
       THEN [s |-> s, call |-> [call EXCEPT !.pc = "awaitEnglish"]]
       ELSE [s |-> [s EXCEPT !.df = @ + 1],
             call |-> [call EXCEPT !.pc = "awaitEnglish", !.d = "pending"]]

\* getContent up to its first await: cache lookup, then getEnglishContent ->
\* getFromDataFiles -> loadJSONFile -> fetch
beginContent(s, key, ctx, modeArg, registryMode, at, inBatch) ==
    LET m == resolveMode(modeArg, registryMode)
        call == [Idle EXCEPT !.op = "getContent", !.key = key, !.ctx = ctx,
                             !.mode = m, !.batch = inBatch]
        c == [cache |-> s.cache, ts |-> s.ts]
        ck == getCacheKey(key, ctx, m)
        g == getFromCache(c, ck, at)
        s1 == [s EXCEPT !.cache = g.c.cache, !.ts = g.c.ts,
                        !.fill = NoteRead(@, g, c, ck)]
    IN IF g.v # JNull THEN [s |-> s1, call |-> Done(call, g.v)]
       ELSE IF DataFileOf(key) = ""
       THEN [s |-> s1, call |-> [call EXCEPT !.pc = "awaitEnglish"]]
       ELSE [s |-> [s1 EXCEPT !.df = @ + 1],
             call |-> [call EXCEPT !.pc = "awaitEnglish", !.d = "pending"]]

\* getContent once getEnglishContent has its result
afterEnglish(s, call, resp, at) ==
    LET data == IF call.d = "pending" THEN dataContent(call.key, loadJSONFile(resp))
                ELSE JNull
        c1 == [call EXCEPT !.english = englishContent(call.key, data), !.d = "none"]
    IN IF c1.mode \in {"study", "beginner"} THEN beginArabic(s, c1)
       ELSE finishContent(s, c1, JNull, at)

(***************************************************************************)
(* LanguageSystem (the mode registry)                                      *)
(***************************************************************************)
\* subscriptions made in one behaviour
MaxSubscribes == 3

VERSION == "1.0.0"
MODES == [EXAM |-> "exam", STUDY |-> "study", BEGINNER |-> "beginner"]

\* modeDirections[m]; undefined for a string that is no mode
modeDirections(m) ==
    CASE m \in {"exam", "study"} -> "ltr"
      [] m = "beginner" -> "rtl"
      [] OTHER -> "undefined"

\* The subscriber callbacks of the model and what each does when called:
\* return, throw, or call its own unsubscribe handle and return
Callbacks == {"plain", "thrower", "once"}
\* "integration" is the callback LanguageIntegration.init subscribes: it calls
\* the async handleLanguageChange and returns without awaiting it; "reenter"
\* is a callback that calls reset() when it is told of a mode other than exam
Behaviour(cb) ==
    CASE cb = "thrower" -> "throw"
      [] cb = "once" -> "unsubscribe"
      [] cb = "integration" -> "update"
      [] cb = "reenter" -> "reset"
      [] OTHER -> "return"

\* what localStorage can hold under STORAGE_KEY: nothing, text that is not
\* JSON, or a record ("" stands for a missing field)
NoRecord == [kind |-> "none", version |-> "", mode |-> "", dir |-> "", timestamp |-> 0]
Corrupt == [kind |-> "corrupt", version |-> "", mode |-> "", dir |-> "", timestamp |-> 0]
Record(v, m, d, at) == [kind |-> "rec", version |-> v, mode |-> m, dir |-> d, timestamp |-> at]
StoredAtStart ==
    {NoRecord, Corrupt,
     Record(VERSION, "beginner", "rtl", 1), Record(VERSION, "bogus", "", 1),
     Record(VERSION, "exam", "rtl", 1), Record("0.9.0", "beginner", "rtl", 1)}

\* the [data-i18n] elements of the page, in document order
Elements == {1, 2}

VARIABLES
    \* LanguageSystem
    mode, dir, observers, initialized,
    docDir, bodyModeClass,  \* what applyDirection / applyModeClass last wrote
    stored,                 \* localStorage[STORAGE_KEY]
    storageOk,              \* localStorage works (else getItem/setItem throw)
    bodyOk,                 \* document.body exists (else it is null)
    handles,                \* the unsubscribe handles returned so far
    rlast,                  \* what the last registry operation did
    \* LanguageIntegration
    updates,                \* the updateAllContent runs waiting at an await
    shown,                  \* the mode each [data-i18n] element was rendered for
    \* ProgressTracker
    progressStore           \* localStorage[STORAGE_PREFIX + mode], by key

\* what no registry operation writes
regEnv == <<storageOk, bodyOk, shown, progressStore>>
regFields == <<mode, dir, observers, initialized, docDir, bodyModeClass, stored,
               handles>>
regVars_noStorage == <<regFields, bodyOk, updates, shown, progressStore>>
regVars == <<regFields, storageOk, bodyOk, updates, shown, progressStore>>

\* r is the record of the registry's fields, with what the operation under
\* way has done so far: getItem and setItem calls, callbacks called, an
\* exception in flight (escaped); a step is skipped while one is in flight
Reg ==
    [mode |-> mode, dir |-> dir, observers |-> observers,
     initialized |-> initialized, docDir |-> docDir,
     bodyModeClass |-> bodyModeClass, stored |-> stored, handles |-> handles,
     updates |-> updates, body |-> bodyOk, ok |-> storageOk, at |-> now,
     reads |-> 0, writes |-> 0, log |-> << >>, threw |-> FALSE, escaped |-> FALSE]

shouldShowArabicHelp(m) == m = MODES.STUDY \/ m = MODES.BEGINNER
isBilingual(m) == m = MODES.BEGINNER
isExamMode(m) == m = MODES.EXAM

\* the state object notifyObservers hands to every callback
Snapshot(r) ==
    [mode |-> r.mode, dir |-> r.dir, isExamMode |-> isExamMode(r.mode),
     shouldShowArabicHelp |-> shouldShowArabicHelp(r.mode),
     isBilingual |-> isBilingual(r.mode)]

\* Array.prototype.indexOf (0: not found)
IndexOf(seq, x) ==
    IF \E i \in DOMAIN seq : seq[i] = x
    THEN CHOOSE i \in DOMAIN seq : seq[i] = x /\ \A j \in DOMAIN seq : seq[j] = x => i <= j
    ELSE 0
\* splice(index, 1)
RemoveAt(seq, i) == [j \in 1..(Len(seq) - 1) |-> IF j < i THEN seq[j] ELSE seq[j + 1]]

\* the unsubscribe closure subscribe(callback) returns
unsubscribe(r, cb) ==
    LET index == IndexOf(r.observers, cb)
    IN IF index > 0 THEN [r EXCEPT !.observers = RemoveAt(@, index)] ELSE r

\* the handle a callback holds for itself: the first one subscribe gave it
\* that has not been called yet (0: none)
OwnHandle(r, cb) ==
    LET hs == {h \in DOMAIN r.handles : r.handles[h].cb = cb /\ ~r.handles[h].called}
    IN IF hs = {} THEN 0 ELSE CHOOSE h \in hs : \A g \in hs : h <= g

\* handleLanguageChange(state) up to its first pending await: updateAllContent
\* reads getMode() and waits for updateElement of the first element, which
\* waits for getContent
handleLanguageChange(r) ==
    IF Elements = {} THEN r
    ELSE [r EXCEPT !.updates = Append(@, [mode |-> r.mode, next |-> 1])]

\* reset, called from within a callback, runs a round of its own
RECURSIVE reset(_, _, _)

\* callback(state): what the subscriber does, and whether it throws
callCallback(r, cb, snap) ==
    LET r1 == [r EXCEPT !.log = Append(@, [cb |-> cb, state |-> snap])]
    IN CASE Behaviour(cb) = "throw" -> [r |-> r1, threw |-> TRUE]
         [] Behaviour(cb) = "update" -> [r |-> handleLanguageChange(r1), threw |-> FALSE]
         [] Behaviour(cb) = "reset" ->
              IF snap.mode = MODES.EXAM THEN [r |-> r1, threw |-> FALSE]
              ELSE LET inner == reset(r1, r1.ok, r1.at)
                   IN [r |-> [inner EXCEPT !.escaped = FALSE], threw |-> inner.escaped]
         [] Behaviour(cb) = "unsubscribe" ->
              LET h == OwnHandle(r1, cb)
                  r2 == IF h = 0 THEN r1 ELSE [r1 EXCEPT !.handles[h].called = TRUE]
              IN [r |-> unsubscribe(r2, cb), threw |-> FALSE]
         [] OTHER -> [r |-> r1, threw |-> FALSE]

\* the body of the forEach callback: try { callback(state) } catch { log }
tryCallback(r, cb, snap) ==
    LET c == callCallback(r, cb, snap)
    IN IF c.threw THEN [c.r EXCEPT !.threw = TRUE] ELSE c.r

\* this.observers.forEach(...): indexes 1..len of the array as it is when
\* each index comes up (len: the length when forEach was called)
RECURSIVE forEach(_, _, _, _)
forEach(r, k, len, snap) ==
    IF k > len \/ r.escaped THEN r
    ELSE IF k > Len(r.observers) THEN forEach(r, k + 1, len, snap)
    ELSE forEach(tryCallback(r, r.observers[k], snap), k + 1, len, snap)

notifyObservers(r) == forEach(r, 1, Len(r.observers), Snapshot(r))

\* html.setAttribute('dir', ...), then document.body.classList: a TypeError
\* when document.body is null
applyDirection(r) ==
    IF r.escaped THEN r
    ELSE IF r.body THEN [r EXCEPT !.docDir = r.dir]
    ELSE [r EXCEPT !.docDir = r.dir, !.escaped = TRUE]
applyModeClass(r) ==
    IF r.escaped THEN r
    ELSE IF r.body THEN [r EXCEPT !.bodyModeClass = "mode-" \o r.mode]
    ELSE [r EXCEPT !.escaped = TRUE]

\* try { localStorage.setItem(...) } catch { log }
savePreferences(r, ok, at) ==
    IF r.escaped THEN r
    ELSE IF ok THEN [r EXCEPT !.stored = Record(VERSION, r.mode, r.dir, at), !.writes = @ + 1]
    ELSE [r EXCEPT !.writes = @ + 1]

\* a loadPreferences without the version check
loadPreferences_anyVersion(r, ok) ==
    IF ok /\ r.stored.kind = "rec" THEN r.stored ELSE NoRecord

\* the saved record, or "none" for null
loadPreferences(r, ok) ==
    IF ~ok THEN NoRecord
    ELSE IF r.stored.kind # "rec" THEN NoRecord
    ELSE IF r.stored.version # VERSION THEN NoRecord
    ELSE r.stored

\* a validation that lets every string through
validMode_none(requested) == requested

\* setMode's validation: a string that is no mode becomes the default
validMode(requested) ==
    IF requested \in {MODES.EXAM, MODES.STUDY, MODES.BEGINNER}
    THEN requested ELSE MODES.EXAM

\* a setMode without the check that the mode is changing
setMode_always(r, requested, ok, at) ==
    LET r1 == [r EXCEPT !.mode = validMode(requested),
                        !.dir = modeDirections(validMode(requested))]
    IN notifyObservers(savePreferences(applyModeClass(applyDirection(r1)), ok, at))

setMode(r, requested, ok, at) ==
    LET m == validMode(requested)
    IN IF r.mode = m THEN r
       ELSE LET r1 == [r EXCEPT !.mode = m, !.dir = modeDirections(m)]
            IN notifyObservers(savePreferences(applyModeClass(applyDirection(r1)), ok, at))

\* the try block of init
init_try(r, ok) ==
    LET saved == loadPreferences(r, ok)
        m == IF saved.kind = "rec"
             THEN (IF saved.mode # "" THEN saved.mode ELSE MODES.EXAM)
             ELSE MODES.EXAM
        d == IF saved.kind = "rec" /\ saved.dir # "" THEN saved.dir
             ELSE modeDirections(m)
        r1 == [r EXCEPT !.mode = m, !.dir = d, !.reads = @ + 1]
        r2 == applyModeClass(applyDirection(r1))
    IN IF r2.escaped THEN r2 ELSE notifyObservers([r2 EXCEPT !.initialized = TRUE])

\* an init without the catch block
init_noCatch(r, ok) == IF r.initialized THEN r ELSE init_try(r, ok)

\* an init without the check that the registry is initialized
init_always(r, ok) ==
    LET r1 == init_try(r, ok)
    IN IF r1.escaped
       THEN [r1 EXCEPT !.mode = MODES.EXAM, !.dir = "ltr",
                       !.initialized = TRUE, !.escaped = FALSE]
       ELSE r1

init(r, ok) ==
    IF r.initialized THEN r
    ELSE LET r1 == init_try(r, ok)
         IN IF r1.escaped
            THEN [r1 EXCEPT !.mode = MODES.EXAM, !.dir = "ltr",
                            !.initialized = TRUE, !.escaped = FALSE]
            ELSE r1

reset(r, ok, at) ==
    LET r1 == [r EXCEPT !.mode = MODES.EXAM, !.dir = modeDirections(MODES.EXAM)]
    IN notifyObservers(applyModeClass(applyDirection(savePreferences(r1, ok, at))))

\* the registry a page load constructs, over what storage holds then
Fresh(st) ==
    [mode |-> MODES.EXAM, dir |-> "ltr", observers |-> << >>,
     initialized |-> FALSE, docDir |-> "", bodyModeClass |-> "", stored |-> st,
     handles |-> << >>, updates |-> << >>, body |-> TRUE, ok |-> TRUE, at |-> 1,
     reads |-> 0, writes |-> 0, log |-> << >>, threw |-> FALSE, escaped |-> FALSE]

\* subscribe(callback) for a function callback: the new handle is the last
subscribe(r, cb) ==
    [r EXCEPT !.observers = Append(@, cb),
              !.handles = Append(@, [cb |-> cb, called |-> FALSE])]

(***************************************************************************)
(* Actions                                                                 *)
(***************************************************************************)
vars == <<loadedTranslations, loadingPromises, promises, dataFetches, cache,
          cacheTimestamps, calls, now, ticks, started, cacheOps, fill, last,
          mode, dir, observers, initialized, docDir, bodyModeClass, stored,
          storageOk, bodyOk, handles, rlast, updates, shown, progressStore>>

SetLib(s) ==
    /\ loadedTranslations' = s.lt
    /\ loadingPromises' = s.lp
    /\ promises' = s.pr
    /\ dataFetches' = s.df
    /\ cache' = s.cache
    /\ cacheTimestamps' = s.ts
    /\ fill' = s.fill

SetReg(r) ==
    /\ mode' = r.mode
    /\ dir' = r.dir
    /\ observers' = r.observers
    /\ initialized' = r.initialized
    /\ docDir' = r.docDir
    /\ bodyModeClass' = r.bodyModeClass
    /\ stored' = r.stored
    /\ handles' = r.handles
    /\ updates' = r.updates

NoOp == [op |-> "none"]

\* a call's result is in its slot: the slot changes, the observers do not
Step(i, x) ==
    /\ SetLib(x.s)
    /\ calls' = [calls EXCEPT ![i] = x.call]
    /\ UNCHANGED <<now, ticks, last, cacheOps, regVars, rlast>>

\* a caller calls loadTranslations(type)
CallLoadTranslations(type) ==
    /\ HasFree(calls) /\ started < MaxStarted /\ CanLoad(Lib, type)
    /\ LET r == loadTranslations(Lib, type)
           call == [Idle EXCEPT !.op = "loadTranslations", !.tbl = type]
       IN Step(FreeSlot(calls),
               [s |-> r.s,
                call |-> IF r.p = 0 THEN Done(call, r.v)
                         ELSE [call EXCEPT !.pc = "awaitLoad", !.p = r.p]])
    /\ started' = started + 1

\* the promise loadTranslations returned to a caller is fulfilled
ResumeLoad(i) ==
    /\ calls[i].pc = "awaitLoad"
    /\ promises[calls[i].tbl][calls[i].p].st = "resolved"
    /\ Step(i, [s |-> Lib, call |-> Done(calls[i], promises[calls[i].tbl][calls[i].p].v)])
    /\ UNCHANGED started

\* the fetch behind load promise n of a table comes to resp
FetchSettle(type, n, resp) ==
    /\ n \in DOMAIN promises[type]
    /\ promises[type][n].st = "pending"
    /\ SetLib(settleLoad(Lib, type, n, resp))
    /\ UNCHANGED <<calls, now, ticks, started, last, cacheOps, regVars, rlast>>

CallGetArabicTranslation(key, ctx) ==
    /\ HasFree(calls) /\ started < MaxStarted /\ CanLoad(Lib, "content")
    /\ Step(FreeSlot(calls),
            beginArabic(Lib, [Idle EXCEPT !.op = "getArabicTranslation",
                                          !.key = key, !.ctx = ctx]))
    /\ started' = started + 1

\* a call goes on after `await this.loadTranslations('content')`
ResumeContent(i) ==
    /\ calls[i].pc = "awaitContent"
    /\ PromiseReady(Lib, "content", calls[i].p)
    /\ CanLoad(Lib, "ui")
    /\ Step(i, afterContent(Lib, calls[i], now))
    /\ UNCHANGED started

\* a call goes on after `await this.loadTranslations('ui')`
ResumeUi(i) ==
    /\ calls[i].pc = "awaitUi"
    /\ PromiseReady(Lib, "ui", calls[i].p)
    /\ Step(i, afterUi(Lib, calls[i], now))
    /\ UNCHANGED started

CallGetExplanation(term) ==
    /\ HasFree(calls) /\ started < MaxStarted /\ CanLoad(Lib, "explanations")
    /\ LET r == loadTranslations(Lib, "explanations")
       IN Step(FreeSlot(calls),
               [s |-> r.s,
                call |-> [Idle EXCEPT !.op = "getExplanation", !.key = <<term>>,
                                      !.pc = "awaitExplanations",
                                      !.tbl = "explanations", !.p = r.p]])
    /\ started' = started + 1

\* getExplanation goes on after `await this.loadTranslations('explanations')`
ResumeExplanation(i) ==
    /\ calls[i].pc = "awaitExplanations"
    /\ PromiseReady(Lib, "explanations", calls[i].p)
    /\ Step(i, [s |-> Lib,
                call |-> Done(calls[i], explanationOf(calls[i].key[1],
                                                      loadedTranslations["explanations"]))])
    /\ UNCHANGED started

CallGetContent(key, ctx, modeArg) ==
    /\ HasFree(calls) /\ started < MaxStarted /\ started + cacheOps + ticks < MaxCacheOps
    /\ Step(FreeSlot(calls), beginContent(Lib, key, ctx, modeArg, mode, now, FALSE))
    /\ started' = started + 1

\* getEnglishContent has its result: the data file's fetch came to resp, or
\* the key has no data file
EnglishReady(i, resp) ==
    /\ calls[i].pc = "awaitEnglish"
    /\ IF calls[i].d = "pending" THEN resp \in DataResponses ELSE resp = Reject
    /\ calls[i].mode \in {"study", "beginner"} => CanLoad(Lib, "content")
    /\ Step(i, afterEnglish(Lib, calls[i], resp, now))
    /\ UNCHANGED started

\* the caller takes the result of a finished call
Return(i) ==
    /\ calls[i].pc \in {"done", "failed"}
    /\ ~calls[i].batch
    /\ calls' = [calls EXCEPT ![i] = Idle]
    /\ UNCHANGED <<loadedTranslations, loadingPromises, promises, dataFetches,
                   cache, cacheTimestamps, now, ticks, started, fill, last,
                   cacheOps, regVars, rlast>>

\* batchLoad(keys, mode): keys.map starts one getContent per key, in order
RECURSIVE startBatch(_, _, _, _, _, _)
startBatch(s, cs, keys, i, modeArg, at) ==
    IF i > Len(keys) THEN [s |-> s, calls |-> cs]
    ELSE LET x == beginContent(s, keys[i], JNull, modeArg, mode, at, TRUE)
         IN startBatch(x.s, [cs EXCEPT ![i] = x.call], keys, i + 1, modeArg, at)

BatchLists == {<<KeyGreet, KeyTerms>>, <<KeyHome, KeyHome>>}

BatchLoad(keys, modeArg) ==
    /\ \A i \in Slots : IsFree(i)
    /\ Len(keys) <= Cardinality(Slots)
    /\ started + Len(keys) <= MaxStarted
    /\ started + cacheOps + ticks + Len(keys) <= MaxCacheOps
    /\ LET x == startBatch(Lib, calls, keys, 1, modeArg, now)
       IN SetLib(x.s) /\ calls' = x.calls
    /\ started' = started + Len(keys)
    /\ UNCHANGED <<now, ticks, last, cacheOps, regVars, rlast>>

\* the object batchLoad fills with `batch[key] = results[index]`, index by
\* index: an assignment to '__proto__' sets the object's prototype instead of
\* an own property
LastIndex(keys, k) == CHOOSE i \in DOMAIN keys : keys[i] = k /\ \A j \in DOMAIN keys : keys[j] = k => j <= i

\* a batch object filled from the results in reverse order
batchOf_reversed(keys, results) ==
    LET own == {keys[i] : i \in DOMAIN keys} \ {KeyProto}
        at(k) == results[Len(keys) + 1 - LastIndex(keys, k)]
    IN [own |-> [k \in {KeyStr(x) : x \in own} |->
                    at(CHOOSE x \in own : KeyStr(x) = k)],
        proto |-> IF \E i \in DOMAIN keys : keys[i] = KeyProto
                  THEN at(KeyProto) ELSE ObjectPrototype]

batchOf(keys, results) ==
    LET own == {keys[i] : i \in DOMAIN keys} \ {KeyProto}
        at(k) == results[LastIndex(keys, k)]
    IN [own |-> [k \in {KeyStr(x) : x \in own} |->
                    at(CHOOSE x \in own : KeyStr(x) = k)],
        proto |-> IF \E i \in DOMAIN keys : keys[i] = KeyProto
                  THEN at(KeyProto) ELSE ObjectPrototype]

\* batch[k], for a property name k the batch object has
BatchGet(batch, k) ==
    IF k \in DOMAIN batch.own THEN batch.own[k]
    ELSE IF k = "__proto__" THEN batch.proto
    ELSE GetProperty(ObjectPrototype, k)

\* `await Promise.all(promises)` is over: every getContent of the batch has
\* its result, and batchLoad returns the batch object; or one of them was
\* rejected, and batchLoad is rejected
BatchJoin ==
    /\ \E i \in Slots : calls[i].batch
    /\ \A i \in Slots : calls[i].batch => calls[i].pc \in {"done", "failed"}
    /\ calls' = [i \in Slots |-> IF calls[i].batch THEN Idle ELSE calls[i]]
    /\ LET n == Cardinality({i \in Slots : calls[i].batch})
           keys == [i \in 1..n |-> calls[i].key]
           results == [i \in 1..n |-> calls[i].res]
       IN last' = IF \E i \in 1..n : calls[i].pc = "failed"
                  THEN [op |-> "batchLoad", keys |-> keys, mode |-> calls[1].mode,
                        rejected |-> TRUE, results |-> << >>, batch |-> JNull]
                  ELSE [op |-> "batchLoad", keys |-> keys, mode |-> calls[1].mode,
                        rejected |-> FALSE, results |-> results,
                        batch |-> batchOf(keys, results)]
    /\ UNCHANGED <<loadedTranslations, loadingPromises, promises, dataFetches,
                   cache, cacheTimestamps, now, ticks, started, fill,
                   cacheOps, regVars, rlast>>

\* the cache keys and contents of direct calls of the cache primitives
DirectKeys == {getCacheKey(KeyGreet, JNull, "exam"), getCacheKey(KeyHome, JNull, "exam"),
               getCacheKey(KeyTerms, JNull, "exam"), getCacheKey(KeyProto, JNull, "exam")}
DirectContents == {Fallback(KeyGreet)}

AddToCache(ck, content) ==
    /\ started + cacheOps + ticks < MaxCacheOps
    /\ LET c == [cache |-> cache, ts |-> cacheTimestamps]
           c1 == addToCache(c, ck, content, now)
       IN /\ cache' = c1.cache
          /\ cacheTimestamps' = c1.ts
          /\ fill' = NoteAdd(fill, ck)
          /\ last' = [op |-> "addToCache", ck |-> ck, wasFull |-> Len(cache) >= CACHE_SIZE]
    /\ cacheOps' = cacheOps + 1
    /\ UNCHANGED <<loadedTranslations, loadingPromises, promises, dataFetches,
                   calls, now, ticks, started, regVars, rlast>>

GetFromCache(ck) ==
    /\ started + cacheOps + ticks < MaxCacheOps
    /\ LET c == [cache |-> cache, ts |-> cacheTimestamps]
           g == getFromCache(c, ck, now)
       IN /\ cache' = g.c.cache
          /\ cacheTimestamps' = g.c.ts
          /\ fill' = NoteRead(fill, g, c, ck)
          /\ last' = [op |-> "getFromCache", ck |-> ck, at |-> now,
                      had |-> MapHas(cache, ck),
                      value |-> IF MapHas(cache, ck) THEN MapValue(cache, ck) ELSE JNull,
                      ts |-> IF ck \in DOMAIN cacheTimestamps THEN cacheTimestamps[ck] ELSE 0,
                      v |-> g.v,
                      inCache |-> MapHas(g.c.cache, ck),
                      inTs |-> ck \in DOMAIN g.c.ts]
    /\ cacheOps' = cacheOps + 1
    /\ UNCHANGED <<loadedTranslations, loadingPromises, promises, dataFetches,
                   calls, now, ticks, started, regVars, rlast>>

ClearCache ==
    /\ started + cacheOps + ticks < MaxCacheOps
    /\ LET c == clearCache([cache |-> cache, ts |-> cacheTimestamps])
       IN cache' = c.cache /\ cacheTimestamps' = c.ts
    /\ fill' = EmptyFill
    /\ last' = [op |-> "clearCache"]
    /\ cacheOps' = cacheOps + 1
    /\ UNCHANGED <<loadedTranslations, loadingPromises, promises, dataFetches,
                   calls, now, ticks, started, regVars, rlast>>

\* time passes
Deltas == {CACHE_TTL - 1, 2}
Tick(d) ==
    /\ ticks < MaxTicks /\ started + cacheOps + ticks < MaxCacheOps
    /\ now' = now + d
    /\ ticks' = ticks + 1
    /\ UNCHANGED <<loadedTranslations, loadingPromises, promises, dataFetches,
                   cache, cacheTimestamps, calls, started, cacheOps, fill, last,
                   regVars, rlast>>

\* a caller looks a key up in the content table
FindTranslation(key, context) ==
    /\ last' = [op |-> "findTranslation", key |-> key, context |-> context,
                data |-> loadedTranslations["content"],
                out |-> findTranslation(key, context, loadedTranslations["content"])]
    /\ UNCHANGED <<libVars, regVars, rlast>>

(***************************************************************************)
(* Registry actions                                                        *)
(***************************************************************************)
\* the registry's own fields
Fields(r) ==
    [mode |-> r.mode, dir |-> r.dir, observers |-> r.observers,
     initialized |-> r.initialized, docDir |-> r.docDir,
     bodyModeClass |-> r.bodyModeClass, stored |-> r.stored]

\* what an operation did: r0 before it, r1 after it
Did(op, req, r0, r1) ==
    [op |-> op, req |-> req, mode0 |-> r0.mode, observers0 |-> r0.observers,
     initialized0 |-> r0.initialized, stored0 |-> r0.stored,
     ok |-> storageOk, body |-> r0.body, pending |-> Len(r1.updates),
     same |-> Fields(r1) = Fields(r0), reads |-> r1.reads,
     writes |-> r1.writes, log |-> r1.log,
     threw |-> r1.threw, escaped |-> r1.escaped, again |-> FALSE,
     \* a callback was called after an unsubscribe handle of it had been
     stale |-> \E i \in DOMAIN r1.log : \E h \in DOMAIN r0.handles :
                  r0.handles[h].called /\ r0.handles[h].cb = r1.log[i].cb]

Requests_setMode == Modes \cup {"bogus"}

SetMode(requested) ==
    /\ LET r == setMode(Reg, requested, storageOk, now)
       IN SetReg(r) /\ rlast' = Did("setMode", requested, Reg, r)
    /\ UNCHANGED <<libVars, last, regEnv>>

RegistryInit ==
    /\ LET r == init(Reg, storageOk)
       IN SetReg(r) /\ rlast' = Did("init", "", Reg, r)
    /\ UNCHANGED <<libVars, last, regEnv>>

Reset ==
    /\ LET r == reset(Reg, storageOk, now)
       IN SetReg(r) /\ rlast' = Did("reset", "", Reg, r)
    /\ UNCHANGED <<libVars, last, regEnv>>

Subscribe(cb) ==
    /\ Len(handles) < MaxSubscribes
    /\ LET r == subscribe(Reg, cb)
       IN SetReg(r) /\ rlast' = Did("subscribe", cb, Reg, r)
    /\ UNCHANGED <<libVars, last, regEnv>>

\* a caller calls the handle the h-th subscribe returned
Unsubscribe(h) ==
    /\ h \in DOMAIN handles
    /\ LET r == unsubscribe(Reg, handles[h].cb)
       IN /\ SetReg([r EXCEPT !.handles[h].called = TRUE])
          /\ rlast' = [Did("unsubscribe", handles[h].cb, Reg, r) EXCEPT
                         !.again = handles[h].called]
    /\ UNCHANGED <<libVars, last, regEnv>>

\* localStorage stops or starts working (quota, privacy settings)
StorageChange ==
    /\ storageOk' = ~storageOk
    /\ UNCHANGED <<libVars, last, regVars_noStorage, rlast>>

\* the parser reaches <body>: document.body is no longer null
BodyParsed ==
    /\ ~bodyOk
    /\ bodyOk' = TRUE
    /\ UNCHANGED <<libVars, last, regFields, storageOk, updates, shown, rlast,
                   progressStore>>

\* updates waiting at an await at one time
MaxUpdates == 2

\* The getContent that run u of updateAllContent waits for settles:
\* updateElement renders its element for the mode the run read (no branch
\* for a string that is no mode), and the run goes on to the next element
UpdateElement(u) ==
    /\ u \in DOMAIN updates
    /\ LET run == updates[u]
           e == run.next
       IN /\ shown' = IF run.mode \in Modes THEN [shown EXCEPT ![e] = run.mode]
                                             ELSE shown
          /\ updates' = IF e + 1 \in Elements THEN [updates EXCEPT ![u].next = e + 1]
                                              ELSE RemoveAt(updates, u)
    /\ UNCHANGED <<libVars, last, regFields, storageOk, bodyOk, rlast,
                   progressStore>>

(***************************************************************************)
(* ProgressTracker                                                         *)
(***************************************************************************)
STORAGE_PREFIX == "it_english_progress_"

\* `${STORAGE_PREFIX}${mode}`, for every string getMode() can return: the
\* three modes, or a string that is no mode after init read one from storage
ProgressKey(m) == <<STORAGE_PREFIX, m>>
ProgressKeys == {ProgressKey(m) : m \in Modes \cup {"bogus"}}

\* nothing stored under a key, or under any key
NoProgress == [kind |-> "none"]
NothingStored == [k \in ProgressKeys |-> NoProgress]

\* the sections progress is kept for; 0 stands for a field that is missing
SectionNames == {"grammar"}
NoSection == [score |-> 0, done |-> 0, lastUpdated |-> 0]

\* the sections object {} is the one without any section; the default has no
\* mode field ("")
getDefaultProgress(at) ==
    [kind |-> "rec", sections |-> [s \in SectionNames |-> NoSection],
     examResults |-> 0, lastExamDate |-> 0, totalTimeSpent |-> 0,
     completedSections |-> {}, createdAt |-> at, lastUpdated |-> at,
     mode |-> ""]

\* this.langSystem is window.LanguageSystem as it was when the tracker was
\* constructed: the registry r, or undefined
getProgressKey_exam(langSystem, r) == ProgressKey("exam")

getProgressKey(langSystem, r) ==
    ProgressKey(IF langSystem THEN r.mode ELSE "exam")

\* getProgress(mode); modeArg "" is the call without an argument. getItem
\* throws while storage does not work
getProgress(store, ok, langSystem, r, modeArg, at) ==
    LET key == IF modeArg # "" THEN ProgressKey(modeArg)
                               ELSE getProgressKey(langSystem, r)
    IN IF ok /\ store[key] # NoProgress THEN store[key]
                                        ELSE getDefaultProgress(at)

\* the spread copies the fields of progress, then lastUpdated and mode are set
saveProgress(store, ok, langSystem, r, progress, at) ==
    LET key == getProgressKey(langSystem, r)
    IN IF ok
       THEN [store |-> [store EXCEPT ![key] =
                          [progress EXCEPT !.lastUpdated = at,
                                           !.mode = IF langSystem THEN r.mode
                                                                  ELSE "exam"]],
             ret |-> TRUE]
       ELSE [store |-> store, ret |-> FALSE]

\* {...progress.sections[section], ...data, lastUpdated}: a field of data
\* replaces the stored one
updateSectionProgress(store, ok, langSystem, r, section, data, at) ==
    LET progress == getProgress(store, ok, langSystem, r, "", at)
        old == progress.sections[section]
        new == [score |-> IF data.score # 0 THEN data.score ELSE old.score,
                done |-> IF data.done # 0 THEN data.done ELSE old.done,
                lastUpdated |-> at]
    IN saveProgress(store, ok, langSystem, r,
                    [progress EXCEPT !.sections[section] = new], at)

saveExamResults(store, ok, langSystem, r, results, at) ==
    LET progress == getProgress(store, ok, langSystem, r, "", at)
    IN saveProgress(store, ok, langSystem, r,
                    [progress EXCEPT !.examResults = results,
                                     !.lastExamDate = at], at)

clearProgress(store, ok, langSystem, r) ==
    LET key == getProgressKey(langSystem, r)
    IN IF ok THEN [store |-> [store EXCEPT ![key] = NoProgress], ret |-> TRUE]
             ELSE [store |-> store, ret |-> FALSE]

\* the tracker was constructed after the registry was put in
\* window.LanguageSystem
langSystem == TRUE

trackerFrame == <<libVars, last, regFields, storageOk, bodyOk, updates, shown, rlast>>

SaveProgress(progress) ==
    /\ progressStore' = saveProgress(progressStore, storageOk, langSystem, Reg,
                                     progress, now).store
    /\ UNCHANGED trackerFrame

UpdateSectionProgress(section, data) ==
    /\ progressStore' = updateSectionProgress(progressStore, storageOk, langSystem,
                                              Reg, section, data, now).store
    /\ UNCHANGED trackerFrame

SaveExamResults(results) ==
    /\ progressStore' = saveExamResults(progressStore, storageOk, langSystem, Reg,
                                        results, now).store
    /\ UNCHANGED trackerFrame

ClearProgress ==
    /\ progressStore' = clearProgress(progressStore, storageOk, langSystem, Reg).store
    /\ UNCHANGED trackerFrame

(***************************************************************************)
(* Specifications                                                          *)
(***************************************************************************)
\* the library after its constructor; Date.now() is positive
InitLibrary ==
    /\ loadedTranslations = [type \in Tables |-> JNull]
    /\ loadingPromises = [type \in Tables |-> 0]
    /\ promises = [type \in Tables |-> << >>]
    /\ dataFetches = 0
    /\ cache = << >>
    /\ cacheTimestamps = << >>
    /\ calls = [i \in Slots |-> Idle]
    /\ now = 1
    /\ ticks = 0
    /\ started = 0
    /\ cacheOps = 0
    /\ fill = EmptyFill
    /\ last = NoOp

\* the registry after its constructor
InitRegistry ==
    /\ mode = MODES.EXAM
    /\ dir = "ltr"
    /\ observers = << >>
    /\ initialized = FALSE
    /\ docDir = ""
    /\ bodyModeClass = ""
    /\ handles = << >>
    /\ rlast = NoOp
    /\ updates = << >>
    /\ shown = [e \in Elements |-> ""]

\* The content library's loads and lookups, beside a registry just constructed
Init ==
    /\ InitLibrary
    /\ InitRegistry
    /\ progressStore = NothingStored
    /\ stored = NoRecord
    /\ storageOk = TRUE
    /\ bodyOk = TRUE

Next ==
    \/ \E type \in Tables : CallLoadTranslations(type)
    \/ \E i \in Slots : ResumeLoad(i)
    \/ \E type \in Tables : \E n \in 1..MaxFetches : \E resp \in TableResponses(type) :
            FetchSettle(type, n, resp)
    \/ \E q \in Requests : CallGetArabicTranslation(q[1], q[2])
    \/ \E i \in Slots : ResumeContent(i)
    \/ \E i \in Slots : ResumeUi(i)
    \/ \E term \in Terms : CallGetExplanation(term)
    \/ \E i \in Slots : ResumeExplanation(i)
    \/ \E q \in Requests : \E m \in ModeArgs : CallGetContent(q[1], q[2], m)
    \/ \E i \in Slots : \E resp \in DataResponses : EnglishReady(i, resp)
    \/ \E i \in Slots : Return(i)

Spec == Init /\ [][Next]_vars

\* The registry and its storage, from whatever an earlier session left in
\* localStorage, on a page whose <body> may not be parsed yet, with at most
\* one subscriber
InitReg ==
    /\ InitLibrary
    /\ InitRegistry
    /\ progressStore = NothingStored
    /\ stored \in StoredAtStart
    /\ storageOk \in BOOLEAN
    /\ bodyOk \in BOOLEAN

NextReg ==
    \/ RegistryInit
    \/ \E m \in Requests_setMode : SetMode(m)
    \/ Reset
    \/ observers = << >> /\ Subscribe("plain")
    \/ StorageChange
    \/ BodyParsed

SpecReg == InitReg /\ [][NextReg]_vars

\* The registry and its subscribers, in a browser with nothing saved whose
\* localStorage either works or throws
InitSubs ==
    /\ InitLibrary
    /\ InitRegistry
    /\ progressStore = NothingStored
    /\ stored = NoRecord
    /\ storageOk \in BOOLEAN
    /\ bodyOk = TRUE

NextSubs ==
    \/ RegistryInit
    \/ \E m \in Requests_setMode : SetMode(m)
    \/ Reset
    \/ \E cb \in Callbacks : Subscribe(cb)
    \/ \E h \in 1..MaxSubscribes : Unsubscribe(h)

SpecSubs == InitSubs /\ [][NextSubs]_vars

\* The registry with the LanguageIntegration subscriber, which subscribes once
NextUi ==
    \/ RegistryInit
    \/ \E m \in Requests_setMode : Len(updates) < MaxUpdates /\ SetMode(m)
    \/ Len(updates) < MaxUpdates /\ Reset
    \/ observers = << >> /\ Subscribe("integration")
    \/ \E u \in 1..MaxUpdates : UpdateElement(u)

SpecUi == Init /\ [][NextUi]_vars

\* getContent of a key without and of a key with a data file, with and without
\* a mode argument, while the registry's mode changes; every fetch of the data
\* file fails
ModeRequests == {<<KeyGreet, JNull>>, <<KeyTerms, JNull>>}
ModeRequestArgs == {JNull, JStr("beginner")}
ModeResponses(type) == {Reject, Body(GoodTable(type))}

NextMode ==
    \/ \E m \in Modes : SetMode(m)
    \/ \E q \in ModeRequests : \E m \in ModeRequestArgs : CallGetContent(q[1], q[2], m)
    \/ \E i \in Slots : EnglishReady(i, Reject)
    \/ \E i \in Slots : ResumeContent(i)
    \/ \E i \in Slots : ResumeUi(i)
    \/ \E type \in Tables : \E n \in 1..MaxFetches : \E resp \in ModeResponses(type) :
            FetchSettle(type, n, resp)
    \/ \E i \in Slots : Return(i)

SpecMode == Init /\ [][NextMode]_vars

\* The cache under getContent, batchLoad, the cache primitives and the clock;
\* getContent is called without a mode argument, so the registry's mode is used
CacheRequests == {<<KeyGreet, JNull>>, <<KeyTerms, JNull>>}
CacheDataResponses == {Reject, Body(TermsFile)}

NextCache ==
    \/ \E q \in CacheRequests : CallGetContent(q[1], q[2], JNull)
    \/ \E i \in Slots : \E resp \in CacheDataResponses : EnglishReady(i, resp)
    \/ \E i \in Slots : Return(i)
    \/ \E keys \in BatchLists : BatchLoad(keys, JNull)
    \/ BatchJoin
    \/ \E ck \in DirectKeys : \E content \in DirectContents : AddToCache(ck, content)
    \/ \E ck \in DirectKeys : GetFromCache(ck)
    \/ ClearCache
    \/ \E d \in Deltas : Tick(d)

SpecCache == Init /\ [][NextCache]_vars

\* batchLoad in exam and in study mode, the getContent calls of a batch
\* finishing in any order
BatchRequests == {<<KeyGreet, KeyTerms>>, <<KeyProto, KeyGreet>>, <<KeyTerms, KeyTerms>>}
BatchModeArgs == {JNull, JStr("study")}

NextBatch ==
    \/ \E keys \in BatchRequests : \E m \in BatchModeArgs : BatchLoad(keys, m)
    \/ \E i \in Slots : \E resp \in CacheDataResponses : EnglishReady(i, resp)
    \/ \E i \in Slots : ResumeContent(i)
    \/ \E i \in Slots : ResumeUi(i)
    \/ \E type \in Tables : \E n \in 1..MaxFetches : \E resp \in ModeResponses(type) :
            FetchSettle(type, n, resp)
    \/ BatchJoin

SpecBatch == Init /\ [][NextBatch]_vars

\* findTranslation over a content table that has been loaded: nested objects
\* with string, number, boolean and null leaves
FindTables ==
    {UiTable, ContentTable, EmptyObj,
     JObj("a" :> JObj("b" :> JObj("ctx" :> JStr("X") @@ "other" :> JStr("Y")))),
     JObj("n" :> JNum(5) @@ "t" :> JBool(TRUE))}
FindKeys ==
    {KeyHome, <<"ui", "nav", "missing">>, <<"ui", "nav", "home", "x">>, <<"a", "b">>,
     KeyGreet, <<"gap">>, <<"n">>, <<"t">>, KeyProto}
FindContexts == {JNull, JStr("ctx"), JStr("formal")}

InitFind ==
    /\ \E d \in FindTables :
          loadedTranslations = [type \in Tables |-> IF type = "content" THEN d ELSE JNull]
    /\ loadingPromises = [type \in Tables |-> 0]
    /\ promises = [type \in Tables |-> << >>]
    /\ dataFetches = 0
    /\ cache = << >>
    /\ cacheTimestamps = << >>
    /\ calls = [i \in Slots |-> Idle]
    /\ now = 1
    /\ ticks = 0
    /\ started = 0
    /\ cacheOps = 0
    /\ fill = EmptyFill
    /\ last = NoOp
    /\ InitRegistry
    /\ progressStore = NothingStored
    /\ stored = NoRecord
    /\ storageOk = TRUE
    /\ bodyOk = TRUE

NextFind == \E key \in FindKeys : \E context \in FindContexts : FindTranslation(key, context)

SpecFind == InitFind /\ [][NextFind]_vars

\* getContent and batchLoad in every mode, with and without a context, over
\* tables and a data file whose fetches fail or succeed.  Every fetch that was
\* started settles, and a call whose await is over goes on (the job queue of
\* the event loop runs every continuation that is ready)
LiveRequests == {<<KeyGreet, JStr("formal")>>, <<KeyTerms, JNull>>, <<<<"gap">>, JStr("formal")>>}
LiveModeArgs == {JNull, JStr("study"), JStr("beginner")}

NextLive ==
    \/ \E q \in LiveRequests : \E m \in LiveModeArgs : CallGetContent(q[1], q[2], m)
    \/ \E keys \in BatchLists : \E m \in LiveModeArgs : BatchLoad(keys, m)
    \/ \E i \in Slots : \E resp \in CacheDataResponses : EnglishReady(i, resp)
    \/ \E i \in Slots : ResumeContent(i)
    \/ \E i \in Slots : ResumeUi(i)
    \/ \E type \in Tables : \E n \in 1..MaxFetches : \E resp \in ModeResponses(type) :
            FetchSettle(type, n, resp)
    \/ BatchJoin
    \/ \E i \in Slots : Return(i)

Fairness ==
    /\ \A type \in Tables :
          WF_vars(\E n \in 1..MaxFetches : \E resp \in ModeResponses(type) :
                     FetchSettle(type, n, resp))
    /\ \A i \in Slots :
          /\ WF_vars(\E resp \in CacheDataResponses : EnglishReady(i, resp))
          /\ WF_vars(ResumeContent(i))
          /\ WF_vars(ResumeUi(i))
    /\ WF_vars(BatchJoin)

SpecLive == Init /\ [][NextLive]_vars /\ Fairness

\* getContent of keys and contexts some of which contain the ':' of the cache
\* key, in exam and in study mode
KeyRequests ==
    {<<KeyGreet, JNull>>, <<KeyGreet, JStr("formal")>>,
     <<<<"a:b">>, JNull>>, <<<<"a">>, JStr("b:default")>>}
KeyModeArgs == {JNull, JStr("study")}

NextKey ==
    \/ \E q \in KeyRequests : \E m \in KeyModeArgs : CallGetContent(q[1], q[2], m)
    \/ \E i \in Slots : EnglishReady(i, Reject)
    \/ \E i \in Slots : ResumeContent(i)
    \/ \E i \in Slots : ResumeUi(i)
    \/ \E type \in Tables : \E n \in 1..MaxFetches : \E resp \in ModeResponses(type) :
            FetchSettle(type, n, resp)
    \/ \E i \in Slots : Return(i)

SpecKey == Init /\ [][NextKey]_vars

\* The registry with a subscriber that calls reset() from its callback, beside
\* a plain subscriber
ReenterCallbacks == {"reenter", "plain"}

NextReenter ==
    \/ RegistryInit
    \/ \E m \in Requests_setMode : SetMode(m)
    \/ Reset
    \/ \E cb \in ReenterCallbacks : Subscribe(cb)
    \/ \E h \in 1..MaxSubscribes : Unsubscribe(h)

SpecReenter == InitSubs /\ [][NextReenter]_vars

(***************************************************************************)
(* Properties of loadTranslations (checked under Spec)                     *)
(***************************************************************************)
PendingLoads(t) == {n \in DOMAIN promises[t] : promises[t][n].st = "pending"}

\* a load of table t has failed: the promise of a failed load is fulfilled with
\* the fallback {}, and no response body of the model is an empty object
LoadFailed(t) == \E n \in DOMAIN promises[t] : promises[t][n] = Resolved(EmptyObj)

\* C1: calls of loadTranslations(table) made while a fetch of the table is in
\* flight issue no second fetch: a table has at most one load in flight, it is
\* the one loadingPromises names and the one every waiting caller holds, and
\* every caller of loadTranslations is handed the table its promise resolved to
C1_LoadsCoalesced ==
    \A t \in Tables :
        /\ Cardinality(PendingLoads(t)) <= 1
        /\ \A n \in PendingLoads(t) : loadingPromises[t] = n
        /\ \A i \in Slots :
              (calls[i].op = "loadTranslations" /\ calls[i].tbl = t /\ calls[i].p # 0) =>
                 /\ calls[i].p \in DOMAIN promises[t]
                 /\ calls[i].pc = "awaitLoad" /\ calls[i].p \in PendingLoads(t)
                       => calls[i].p = loadingPromises[t]
                 /\ calls[i].pc = "done" => calls[i].res = promises[t][calls[i].p].v
        /\ \A i, j \in Slots :
              (/\ calls[i].op = "loadTranslations" /\ calls[j].op = "loadTranslations"
               /\ calls[i].tbl = t /\ calls[j].tbl = t
               /\ calls[i].p = calls[j].p /\ calls[i].p # 0
               /\ calls[i].pc = "done" /\ calls[j].pc = "done")
                 => calls[i].res = calls[j].res

\* two callers of loadTranslations(t) shared the one fetch of t and both have
\* the parsed table
C1_Witness ==
    \E t \in Tables :
        /\ \A i \in Slots :
              /\ calls[i].op = "loadTranslations" /\ calls[i].tbl = t
              /\ calls[i].p = 1 /\ calls[i].pc = "done" /\ calls[i].res = GoodTable(t)
        /\ FetchCount(t) = 1

\* C2: a table that has been loaded, or whose load has failed, is never
\* fetched again: at most one fetch of a table is ever issued
C2_AtMostOneFetchPerTable == \A t \in Tables : FetchCount(t) <= 1

\* C3: once a load of table t has failed, a lookup of any key in t is absent
\* and does not throw, loadTranslations(t) gives the empty table, and no
\* further fetch of t is issued
C3_FailedLoadIsAbsent ==
    \A t \in Tables :
        (LoadFailed(t) /\ loadedTranslations[t] = EmptyObj) =>
            /\ \A key \in Keys : \A context \in Contexts :
                  findTranslation(key, context, loadedTranslations[t]) = Returned(JNull)
            /\ loadTranslations(Lib, t) = [s |-> Lib, p |-> 0, v |-> EmptyObj]

(***************************************************************************)
(* Properties of the cache (checked under SpecCache)                       *)
(***************************************************************************)
\* C4: the cache never holds more than CACHE_SIZE entries
C4_CacheBounded ==
    /\ Len(cache) <= CACHE_SIZE
    /\ Cardinality(CacheKeysOf(cache)) = Len(cache)
    /\ DOMAIN cacheTimestamps = CacheKeysOf(cache)

\* an entry was added to a full cache
C4_Witness ==
    /\ last.op = "addToCache" /\ last.wasFull
    /\ Len(cache) = CACHE_SIZE

\* the entry of key k is in the cache and not older than CACHE_TTL
Unexpired(k) == MapHas(cache, k) /\ now - cacheTimestamps[k] <= CACHE_TTL

C6_ExpiresAfterTtl ==
    (last.op = "getFromCache" /\ last.had) =>
        /\ last.at = last.ts + CACHE_TTL - 1 => last.v = last.value /\ last.inCache
        /\ last.at = last.ts + CACHE_TTL + 1 =>
              last.v = JNull /\ ~last.inCache /\ ~last.inTs

\* an entry was read one millisecond after its time to live
C6_Witness ==
    /\ last.op = "getFromCache" /\ last.had
    /\ last.at = last.ts + CACHE_TTL + 1

(***************************************************************************)
(* Properties of the mode registry (checked under SpecSubs)                *)
(***************************************************************************)
\* the callbacks a round called, in the order of the calls
Called(l) == [i \in DOMAIN l |-> l[i].cb]

\* the snapshot of mode m
SnapshotOf(m) == Snapshot([mode |-> m, dir |-> modeDirections(m)])

\* C7: setMode of the current mode (after validation) changes no field of the
\* registry, writes nothing to storage and calls no subscriber
C7_SetModeSameIsNoOp ==
    (rlast.op = "setMode" /\ validMode(rlast.req) = rlast.mode0) =>
        rlast.same /\ rlast.writes = 0 /\ rlast.log = << >>

\* setMode of the current mode was called with subscribers registered
C7_Witness ==
    /\ rlast.op = "setMode" /\ validMode(rlast.req) = rlast.mode0
    /\ Len(rlast.observers0) >= 2
    /\ rlast.mode0 = MODES.STUDY

\* C8: setMode of a valid mode other than the current one writes to storage
\* once and calls every registered subscriber once, in subscription order,
\* each with the snapshot of the new mode
C8_SetModeOtherNotifiesAll ==
    (rlast.op = "setMode" /\ rlast.req \in Modes /\ rlast.req # rlast.mode0) =>
        /\ rlast.writes = 1
        /\ Called(rlast.log) = rlast.observers0
        /\ \A i \in DOMAIN rlast.log : rlast.log[i].state = SnapshotOf(rlast.req)

\* C9: a callback whose unsubscribe handle has been called is notified no
\* more, and a second call of the handle changes nothing
C9_UnsubscribeIsFinal ==
    /\ (rlast.op = "unsubscribe" /\ rlast.again) => rlast.same
    /\ rlast.op \in {"setMode", "reset", "init"} => ~rlast.stale

\* C10: in a round where a callback throws, every registered subscriber is
\* still called and the exception does not reach the caller
C10_ThrowingSubscriberIsolated ==
    (rlast.op \in {"setMode", "reset", "init"} /\ rlast.threw) =>
        /\ Called(rlast.log) = rlast.observers0
        /\ ~rlast.escaped

(***************************************************************************)
(* Properties of the registry and what it persists (checked under SpecReg) *)
(***************************************************************************)
\* C11: the direction of the registry is the one derived from its mode: ltr
\* for exam and study, rtl for beginner
C11_DirFollowsMode ==
    mode \in Modes => dir = modeDirections(mode)

\* C12: the mode of the registry is exam, study or beginner
C12_ModeIsAMode ==
    mode \in Modes

C14_InitIsIdempotent ==
    (rlast.op = "init" /\ rlast.initialized0) =>
        /\ rlast.same /\ rlast.reads = 0 /\ rlast.writes = 0
        /\ rlast.log = << >> /\ ~rlast.escaped

\* init was called again, with a subscriber registered, after the mode had
\* changed and while storage held a record of another mode
C14_Witness ==
    /\ rlast.op = "init" /\ rlast.initialized0
    /\ observers # << >>
    /\ mode = MODES.STUDY
    /\ stored.kind = "rec" /\ stored.version = VERSION /\ stored.mode = "beginner"

\* C15: when init returns the registry is initialized and no exception
\* reaches the caller; when a step of the initialisation failed (getItem
\* threw, the record did not parse, document.body was missing) the registry
\* is in exam mode with direction ltr
C15_InitAlwaysInitializes ==
    rlast.op = "init" =>
        /\ initialized /\ ~rlast.escaped
        /\ (/\ ~rlast.initialized0
            /\ (~rlast.ok \/ rlast.stored0.kind = "corrupt" \/ ~rlast.body))
            => (mode = MODES.EXAM /\ dir = "ltr")

\* the first init read a beginner record and failed at document.body
C15_Witness ==
    /\ rlast.op = "init" /\ ~rlast.initialized0
    /\ rlast.ok /\ ~rlast.body
    /\ rlast.stored0 = Record(VERSION, "beginner", "rtl", 1)
    /\ initialized /\ mode = MODES.EXAM /\ docDir = "rtl"

\* C16: after a setMode of a valid mode m returned normally while storage
\* worked, a registry constructed afresh over the same storage and initialized
\* has mode m and the direction derived from m
C16_SetModeRoundTrip ==
    (rlast.op = "setMode" /\ rlast.req \in Modes /\ rlast.ok /\ ~rlast.escaped) =>
        LET f == init(Fresh(stored), TRUE)
        IN f.mode = rlast.req /\ f.dir = modeDirections(rlast.req)

\* C17: an init that finds a record of another version discards it: the
\* registry is in exam mode with direction ltr, whatever the record holds
C17_OtherVersionDiscarded ==
    (/\ rlast.op = "init" /\ ~rlast.initialized0
     /\ rlast.stored0.kind = "rec" /\ rlast.stored0.version # VERSION)
        => (mode = MODES.EXAM /\ dir = "ltr")

\* the first init read, from working storage, a beginner/rtl record of
\* another version
C17_Witness ==
    /\ rlast.op = "init" /\ ~rlast.initialized0 /\ rlast.ok /\ rlast.body
    /\ rlast.stored0 = Record("0.9.0", "beginner", "rtl", 1)
    /\ rlast.reads = 1
    /\ mode = MODES.EXAM /\ dir = "ltr" /\ docDir = "ltr"

\* C18: reset puts the registry in exam mode with direction ltr, writes to
\* storage once and calls every registered subscriber once with the snapshot
\* of exam mode, also when the mode was exam already
C18_ResetAlwaysNotifies ==
    rlast.op = "reset" =>
        /\ mode = MODES.EXAM /\ dir = "ltr"
        /\ rlast.writes = 1
        /\ Called(rlast.log) = rlast.observers0
        /\ \A i \in DOMAIN rlast.log : rlast.log[i].state = SnapshotOf(MODES.EXAM)
        /\ ~rlast.escaped

(***************************************************************************)
(* Properties of the LanguageIntegration subscriber (checked under SpecUi) *)
(***************************************************************************)
\* C19: when setMode, reset or init returns after a notification round, every
\* content update the round started has completed: no updateAllContent run is
\* still waiting to render a [data-i18n] element
C19_UpdatedOnReturn ==
    (rlast.op \in {"setMode", "reset", "init"} /\ rlast.log # << >>) =>
        rlast.pending = 0

(***************************************************************************)
(* Properties of getContent over the cache (checked under SpecCache)       *)
(***************************************************************************)
\* C20: a getContent that finds its key in the cache, unexpired, returns the
\* cached content at once: it fetches no data file and no table, starts no
\* table load and leaves the cache as it was
C20_CacheHitFetchesNothing ==
    [][\A q \in CacheRequests :
          LET ck == getCacheKey(q[1], q[2], mode)
          IN (/\ Unexpired(ck) /\ Truthy(MapValue(cache, ck))
              /\ CallGetContent(q[1], q[2], JNull)) =>
                /\ calls'[FreeSlot(calls)].pc = "done"
                /\ calls'[FreeSlot(calls)].res = MapValue(cache, ck)
                /\ dataFetches' = dataFetches
                /\ promises' = promises /\ loadingPromises' = loadingPromises
                /\ cache' = cache /\ cacheTimestamps' = cacheTimestamps]_vars

\* a getContent of a key that has a data file returned content that only
\* addToCache had put under its key, and no data file was ever fetched
C20_Witness ==
    /\ dataFetches = 0
    /\ \E i \in Slots :
          /\ calls[i].op = "getContent" /\ calls[i].pc = "done"
          /\ calls[i].key = KeyTerms /\ calls[i].res = Fallback(KeyGreet)

(***************************************************************************)
(* Properties of getContent's mode (checked under SpecMode)                *)
(***************************************************************************)
\* C21: getContent takes its mode from the mode argument when one is given,
\* else from the registry's mode at the time of the call, else exam; that
\* mode names the cache entry the call reads, the branch that composes its
\* result and the cache entry the result is written to
C21_ModeResolved ==
    /\ resolveMode(JNull, NoRegistry) = "exam"
    /\ [][/\ \A q \in ModeRequests : \A a \in ModeRequestArgs :
               CallGetContent(q[1], q[2], a) =>
                  LET m == IF a # JNull THEN a.s ELSE mode
                      ck == getCacheKey(q[1], q[2], m)
                      i == FreeSlot(calls)
                  IN /\ calls'[i].mode = m
                     /\ IF MapHas(cache, ck)
                        THEN calls'[i].pc = "done" /\ calls'[i].res = MapValue(cache, ck)
                        ELSE calls'[i].pc = "awaitEnglish"
          /\ \A i \in Slots :
               (calls[i].op = "getContent" /\ calls'[i].op = "getContent") =>
                  LET m == calls[i].mode
                      ck == getCacheKey(calls[i].key, calls[i].ctx, m)
                      res == calls'[i].res
                  IN /\ calls'[i].mode = m
                     /\ (calls[i].pc # "done" /\ calls'[i].pc = "done") =>
                           /\ m = "study" <=> res.t = "study"
                           /\ m = "beginner" <=> res.t = "beginner"
                           /\ MapHas(cache', ck) /\ MapValue(cache', ck) = res]_vars

\* a getContent without a mode argument, called while the registry was in
\* study mode, finished with a study structure stored under the study key
\* after the registry had gone on to beginner mode
C21_Witness ==
    /\ mode = MODES.BEGINNER
    /\ \E i \in Slots :
          /\ calls[i].op = "getContent" /\ calls[i].pc = "done"
          /\ calls[i].mode = "study" /\ calls[i].res.t = "study"
          /\ MapHas(cache, getCacheKey(calls[i].key, calls[i].ctx, "study"))
          /\ ~MapHas(cache, getCacheKey(calls[i].key, calls[i].ctx, "beginner"))

(***************************************************************************)
(* Properties of getContent's results (checked under SpecCache)            *)
(***************************************************************************)
\* C22: a getContent that missed the cache stores what it composed, under its
\* cache key and with the time of the store, before it returns; a getContent
\* that finds its key in the cache, unexpired, returns the stored value; and
\* so, while the entry a returned getContent stored is still in the cache and
\* unexpired, the entry, which is what a second call with the same key,
\* context and mode returns, is the value the first call returned
C22_SecondCallSameValue ==
    [][/\ \A i \in Slots :
            (/\ calls[i].op = "getContent" /\ calls[i].pc # "done"
             /\ calls'[i].op = "getContent" /\ calls'[i].pc = "done") =>
               LET ck == getCacheKey(calls[i].key, calls[i].ctx, calls[i].mode)
               IN /\ MapHas(cache', ck)
                  /\ MapValue(cache', ck) = calls'[i].res
                  /\ cacheTimestamps'[ck] = now
                  /\ \A j \in Slots \ {i} :
                        (/\ calls[j].op = "getContent" /\ calls[j].pc = "done"
                         /\ getCacheKey(calls[j].key, calls[j].ctx, calls[j].mode) = ck
                         /\ Unexpired(ck)
                         /\ MapValue(cache, ck) = calls[j].res) =>
                           MapValue(cache', ck) = calls[j].res
       /\ \A q \in CacheRequests :
            LET ck == getCacheKey(q[1], q[2], mode)
            IN (Unexpired(ck) /\ CallGetContent(q[1], q[2], JNull)) =>
                  /\ calls'[FreeSlot(calls)].pc = "done"
                  /\ calls'[FreeSlot(calls)].res = MapValue(cache, ck)]_vars

(***************************************************************************)
(* Properties of the composed content (checked under Spec)                 *)
(***************************************************************************)
\* C23: a getContent in beginner mode returns a structure with isBilingual
\* true, whose english is what exam mode composes for the key and whose main
\* is the Arabic translation when the lookup found one and the English result
\* when it found none; when the loads of both tables have failed there is no
\* translation and main is the English result
C23_BeginnerStructure ==
    [][\A i \in Slots :
          (/\ calls[i].op = "getContent" /\ calls[i].mode = "beginner"
           /\ calls[i].pc # "done" /\ calls'[i].op = "getContent"
           /\ calls'[i].pc = "done") =>
             LET res == calls'[i].res
                 english == calls[i].english
                 tbl == loadedTranslations[calls[i].tbl]
                 found == findTranslation(calls[i].key, calls[i].ctx, tbl).v
             IN /\ res.t = "beginner" /\ res.isBilingual /\ res.mode = "beginner"
                /\ english = englishContent(calls[i].key, JNull)
                /\ res.english = english
                /\ res.main = IF Truthy(found) THEN found ELSE english
                /\ (\A t \in {"content", "ui"} :
                       LoadFailed(t) /\ loadedTranslations[t] = EmptyObj)
                      => res.main = english]_vars

(***************************************************************************)
(* Properties of batchLoad (checked under SpecBatch)                       *)
(***************************************************************************)
\* C24: batchLoad is never rejected and returns an object in which every
\* input key is associated with the result of the getContent call made for
\* that key under the batch's mode, whichever call finished first: in exam
\* mode the English content of the key, in study mode the study structure
\* around it
C24_BatchMapsKeys ==
    last.op = "batchLoad" =>
        /\ ~last.rejected
        /\ \A i \in DOMAIN last.keys :
              LET k == last.keys[i]
                  r == BatchGet(last.batch, KeyStr(k))
                  english == IF last.mode = "study" THEN r.main ELSE r
              IN /\ r = last.results[LastIndex(last.keys, k)]
                 /\ last.mode = "study" <=> r.t = "study"
                 /\ english \in {Fallback(k), dataContent(k, loadJSONFile(Body(TermsFile)))}
                 /\ english = Fallback(k) \/ k = KeyTerms

\* a batch of two keys whose second getContent finished, and stored its
\* result, before the first: each key has its own result
C24_Witness ==
    /\ last.op = "batchLoad" /\ last.keys = <<KeyGreet, KeyTerms>>
    /\ Len(cache) = 2 /\ cache[1].k = getCacheKey(KeyTerms, JNull, "exam")
    /\ BatchGet(last.batch, "greet") = Fallback(KeyGreet)
    /\ BatchGet(last.batch, "technical-terms").t = "term"

(***************************************************************************)
(* Properties of findTranslation (checked under SpecFind)                  *)
(***************************************************************************)
\* the node at which the key's segments, each an entry of the object before
\* it, end in the table; "missing" when a segment is no entry of its object
RECURSIVE NodeAt(_, _, _)
NodeAt(keys, i, node) ==
    IF i > Len(keys) THEN [missing |-> FALSE, node |-> node]
    ELSE IF node.t = "obj" /\ keys[i] \in DOMAIN node.m
         THEN NodeAt(keys, i + 1, node.m[keys[i]])
         ELSE [missing |-> TRUE, node |-> JNull]

\* C25: findTranslation returns the node reached by following the segments of
\* the key through the table, absent (null) when a segment is missing, and,
\* when a context is given and the node reached is an object that has an
\* entry for it, the value of that entry
C25_FindsTheNode ==
    last.op = "findTranslation" =>
        LET r == NodeAt(last.key, 1, last.data)
        IN last.out =
              IF r.missing THEN Returned(JNull)
              ELSE IF /\ last.context # JNull /\ r.node.t = "obj"
                      /\ last.context.s \in DOMAIN r.node.m
                   THEN Returned(r.node.m[last.context.s])
                   ELSE Returned(r.node)

\* C26: findTranslation never throws, whatever the key, the context and the
\* table: a lookup that fails yields null
C26_FindNeverThrows == last.op = "findTranslation" => ~last.out.threw

(***************************************************************************)
(* Properties of the data files (checked under SpecMode)                   *)
(***************************************************************************)
\* C27: once a fetch of a data file has failed, which shows in a getContent of
\* one of the file's keys that has gone on with the fallback content as its
\* English content, no getContent fetches a data file again (the keys of the
\* model that have a data file all have the same one)
C27_FailedDataFileNotRefetched ==
    [][(\E i \in Slots :
          LET c == calls[i]
              english == IF c.pc # "done" THEN c.english
                         ELSE IF c.res.t = "beginner" THEN c.res.english
                         ELSE IF c.res.t = "study" THEN c.res.main
                         ELSE c.res
          IN /\ c.op = "getContent" /\ DataFileOf(c.key) # ""
             /\ c.pc \in {"awaitContent", "awaitUi", "done"}
             /\ english = Fallback(c.key))
         => dataFetches' = dataFetches]_vars

(***************************************************************************)
(* Properties of storage failures (checked under SpecSubs)                 *)
(***************************************************************************)
\* C28: a failure of localStorage is never propagated.  When the write of
\* setMode or reset fails, the operation still returns normally with mode and
\* dir updated, and every subscriber registered at the call is notified; when
\* the read of init fails, or what it reads is no JSON, init ends as it does
\* when nothing was saved
C28_StorageFailuresContained ==
    /\ \A st \in StoredAtStart \cup {Corrupt} : \A ok \in BOOLEAN :
          (~ok \/ st = Corrupt) =>
             LET a == init(Fresh(st), ok)
                 b == init(Fresh(NoRecord), TRUE)
             IN /\ ~a.escaped /\ a.initialized
                /\ [Fields(a) EXCEPT !.stored = NoRecord]
                      = [Fields(b) EXCEPT !.stored = NoRecord]
    /\ (rlast.op \in {"setMode", "reset"} /\ ~rlast.ok /\ rlast.writes = 1) =>
          /\ ~rlast.escaped
          /\ mode = (IF rlast.op = "reset" THEN MODES.EXAM ELSE validMode(rlast.req))
          /\ dir = modeDirections(mode)
          /\ stored = rlast.stored0
          /\ Called(rlast.log) = rlast.observers0

(***************************************************************************)
(* Liveness of getContent and batchLoad (checked under SpecLive)           *)
(***************************************************************************)
\* C29: when every started fetch settles, no getContent is ever rejected,
\* every getContent that is waiting comes to return a content structure, and
\* every batchLoad comes to return its batch object
C29_CallsReturnContent ==
    /\ [](\A i \in Slots : calls[i].pc # "failed")
    /\ \A i \in Slots :
          (calls[i].op = "getContent" /\ calls[i].pc # "done") ~>
             (/\ calls[i].pc = "done"
              /\ calls[i].res.t \in {"english", "term", "synonym", "study", "beginner"})
    /\ (\E i \in Slots : calls[i].batch) ~> (last.op = "batchLoad" /\ ~last.rejected)

(***************************************************************************)
(* Properties of getArabicTranslation (checked under Spec)                 *)
(***************************************************************************)
\* C30: getArabicTranslation first waits for the content table alone; it goes
\* on only when that load is over; when the content table has a translation
\* of the key it returns it and starts no load of the ui table; when it has
\* none the call turns to the ui table; and after a miss in both tables it
\* returns null and does not throw
C30_ContentBeforeUi ==
    [][\A i \in Slots :
          LET c == calls[i]
              c1 == calls'[i]
              inContent == NodeAt(c.key, 1, loadedTranslations["content"])
              inUi == NodeAt(c.key, 1, loadedTranslations["ui"])
          IN /\ (c.op = "idle" /\ c1.op = "getArabicTranslation") =>
                   /\ c1.pc = "awaitContent"
                   /\ promises'["ui"] = promises["ui"]
             /\ (/\ c.op = "getArabicTranslation" /\ c.pc = "awaitContent"
                 /\ c1.pc # "awaitContent") =>
                   /\ PromiseReady(Lib, "content", c.p)
                   /\ IF ~inContent.missing /\ Truthy(inContent.node)
                      THEN /\ c1.pc = "done" /\ c1.res = inContent.node
                           /\ promises'["ui"] = promises["ui"]
                           /\ loadingPromises'["ui"] = loadingPromises["ui"]
                      ELSE c1.pc = "awaitUi"
             /\ (/\ c.op = "getArabicTranslation" /\ c.pc = "awaitUi"
                 /\ c1.pc # "awaitUi") =>
                   /\ c1.pc = "done"
                   /\ c1.res = IF ~inUi.missing /\ Truthy(inUi.node)
                               THEN inUi.node ELSE JNull]_vars

(***************************************************************************)
(* Properties of the cache key (checked under SpecKey)                     *)
(***************************************************************************)
\* C31: cache entries are keyed by the triple (mode, key, context or
\* "default"), so a getContent never returns content that was composed and
\* cached for another triple: the English content it returns is that of its
\* own key, under the mode it was called with
C31_TripleKeysEntry ==
    \A i \in Slots :
        (calls[i].op = "getContent" /\ calls[i].pc = "done") =>
           LET r == calls[i].res
               english == IF r.t = "study" THEN r.main ELSE r
           IN /\ calls[i].mode = "study" <=> r.t = "study"
              /\ english = Fallback(calls[i].key)

(***************************************************************************)
(* Properties of cache writes (checked under SpecCache)                    *)
(***************************************************************************)
\* C32: a write of a cache key that is present, by addToCache or by a
\* getContent that finishes after another call stored the same key, gives the
\* key its new timestamp and leaves every other entry in place, at CACHE_SIZE
\* too; and an entry that a write removes from a full cache has the oldest
\* timestamp of the cache
C32_RewriteEvictsNothing ==
    [][\A ck \in CacheKeysOf(cache) \cup DirectKeys :
          LET byCall == \E i \in Slots :
                           /\ calls[i].op = "getContent" /\ calls[i].pc # "done"
                           /\ calls'[i].op = "getContent" /\ calls'[i].pc = "done"
                           /\ getCacheKey(calls[i].key, calls[i].ctx, calls[i].mode) = ck
              direct == \E content \in DirectContents : AddToCache(ck, content)
              others == CacheKeysOf(cache) \ {ck}
          IN (byCall \/ direct) =>
                /\ MapHas(cache', ck) /\ cacheTimestamps'[ck] = now
                /\ MapHas(cache, ck) =>
                      /\ CacheKeysOf(cache') = CacheKeysOf(cache)
                      /\ \A k \in others :
                            /\ MapValue(cache', k) = MapValue(cache, k)
                            /\ cacheTimestamps'[k] = cacheTimestamps[k]
                /\ \A k \in others \ CacheKeysOf(cache') :
                      \A j \in CacheKeysOf(cache) : cacheTimestamps[k] <= cacheTimestamps[j]]_vars

(***************************************************************************)
(* Properties of interleaved content updates (checked under SpecUi)        *)
(***************************************************************************)
\* C33: once every content update that mode changes have started is over,
\* every [data-i18n] element that has been rendered shows the content of the
\* registry's current mode
C33_FinalModeShown ==
    (updates = << >> /\ \E e \in Elements : shown[e] # "") =>
        \A e \in Elements : shown[e] = mode

(***************************************************************************)
(* Properties of a round that changes the subscribers (under SpecSubs)     *)
(***************************************************************************)
\* C35: in a notification round in which a callback calls its unsubscribe
\* handle, every callback that was subscribed (once) when the round began and
\* is still subscribed when it ends has been called exactly once
C35_RoundCallsEachOnce ==
    (\/ rlast.op = "reset"
     \/ rlast.op = "init" /\ ~rlast.initialized0
     \/ rlast.op = "setMode" /\ validMode(rlast.req) # rlast.mode0) =>
        \A cb \in Callbacks :
           (/\ Cardinality({i \in DOMAIN rlast.observers0 : rlast.observers0[i] = cb}) = 1
            /\ \E i \in DOMAIN observers : observers[i] = cb) =>
              Cardinality({i \in DOMAIN rlast.log : rlast.log[i].cb = cb}) = 1

(***************************************************************************)
(* Properties of re-entrant mode changes (checked under SpecReenter)       *)
(***************************************************************************)
\* C34: when a callback changes the mode during a notification round, every
\* subscriber is told of the changes in their order: when the outermost
\* setMode, reset or init returns, the last snapshot each subscriber received
\* in it is that of the registry's mode and direction
C34_LastSnapshotIsCurrent ==
    rlast.op \in {"setMode", "reset", "init"} =>
        \A i \in DOMAIN rlast.log :
           (\A j \in DOMAIN rlast.log : j > i => rlast.log[j].cb # rlast.log[i].cb) =>
              rlast.log[i].state = Snapshot([mode |-> mode, dir |-> dir])

(***************************************************************************)
(* Progress per mode (checked under SpecProgress)                          *)
(***************************************************************************)
\* what a caller passes to updateSectionProgress and saveExamResults
SectionData == {[score |-> 1, done |-> 0], [score |-> 0, done |-> 1]}
ExamResults == {1}

\* The tracker beside the registry, in a browser whose localStorage either
\* works or throws. A caller saves a progress object it got from getProgress,
\* of the current mode or of another one
NextProgress ==
    \/ \E m \in Modes : SetMode(m)
    \/ \E m \in Modes :
          SaveProgress(getProgress(progressStore, storageOk, langSystem, Reg, m, now))
    \/ \E s \in SectionNames : \E d \in SectionData : UpdateSectionProgress(s, d)
    \/ \E res \in ExamResults : SaveExamResults(res)
    \/ ClearProgress

\* what an earlier session left in localStorage: exam results saved in exam
\* mode, and with them or not a section updated in beginner mode
ProgressAtStart ==
    LET exam == [getDefaultProgress(1) EXCEPT !.examResults = 1, !.lastExamDate = 1,
                                              !.mode = "exam"]
        beginner == [getDefaultProgress(1) EXCEPT
                        !.sections["grammar"] = [score |-> 1, done |-> 0, lastUpdated |-> 1],
                        !.mode = "beginner"]
    IN {[NothingStored EXCEPT ![ProgressKey("exam")] = exam],
        [NothingStored EXCEPT ![ProgressKey("exam")] = exam,
                              ![ProgressKey("beginner")] = beginner]}

InitProgress ==
    /\ InitLibrary
    /\ InitRegistry
    /\ progressStore \in ProgressAtStart
    /\ stored = NoRecord
    /\ storageOk \in BOOLEAN
    /\ bodyOk = TRUE

SpecProgress == InitProgress /\ [][NextProgress]_vars

====
